---------------------------- MODULE Spec2Model ----------------------------
(***************************************************************************)
(* Model of pyco (the Builder that writes the new-style PYC container) and *)
(* unpyc (the Reader that loads it).                                       *)
(*                                                                         *)
(* Python values are records [k, n, z, b, items]:                          *)
(*   k      the kind: none bool int float complex bytes str tuple          *)
(*          frozenset code other                                           *)
(*   n      the number: a bool's 0/1, an int, a float in hundredths, the   *)
(*          position of a code object in CodeUnits                         *)
(*   z      TRUE for the float -0.0 (the sign bit of a zero)               *)
(*   b      the bytes of a bytes object, the code points of a str          *)
(*   items  the elements of a tuple or frozenset (iteration order), the    *)
(*          real and imaginary float of a complex                          *)
(***************************************************************************)
EXTENDS Integers, Sequences, FiniteSets, TLC

Val(k, n, z, b, items) == [k |-> k, n |-> n, z |-> z, b |-> b, items |-> items]

VNone == Val("none", 0, FALSE, <<>>, <<>>)
VFalse == Val("bool", 0, FALSE, <<>>, <<>>)
VTrue == Val("bool", 1, FALSE, <<>>, <<>>)
VInt(i) == Val("int", i, FALSE, <<>>, <<>>)
VFloat(h) == Val("float", h, FALSE, <<>>, <<>>)
VNegZero == Val("float", 0, TRUE, <<>>, <<>>)
VComplex(re, im) == Val("complex", 0, FALSE, <<>>, <<re, im>>)
VBytes(b) == Val("bytes", 0, FALSE, b, <<>>)
VStr(s) == Val("str", 0, FALSE, s, <<>>)
VTuple(t) == Val("tuple", 0, FALSE, <<>>, t)
VFrozenset(t) == Val("frozenset", 0, FALSE, <<>>, t)
VCode(c) == Val("code", c, FALSE, <<>>, <<>>)
VEllipsis == Val("other", 0, FALSE, <<>>, <<>>)

Max(a, b) == IF a >= b THEN a ELSE b

SetMin(S) == CHOOSE x \in S : \A y \in S : x <= y

RECURSIVE Pow(_, _)
Pow(b, e) == IF e = 0 THEN 1 ELSE b * Pow(b, e - 1)

\* x >> k and x & (2^k - 1) on non-negative integers
Shr(x, k) == x \div Pow(2, k)

LowBits(x, k) == x % Pow(2, k)

(***************************************************************************)
(* Python's == on the values above.  bool, int, float and complex compare  *)
(* as numbers (True == 1 == 1.0 == (1+0j), 0.0 == -0.0); tuples compare    *)
(* element by element and frozensets as sets, both with ==.                *)
(***************************************************************************)
IsNumber(v) == v.k \in {"bool", "int", "float", "complex"}

\* real and imaginary part in hundredths
RealPart(v) ==
  CASE v.k = "float" -> v.n
    [] v.k = "complex" -> v.items[1].n
    [] OTHER -> 100 * v.n

ImagPart(v) == IF v.k = "complex" THEN v.items[2].n ELSE 0

RECURSIVE PyEq(_, _)
PyEq(a, b) ==
  IF IsNumber(a) \/ IsNumber(b)
  THEN IsNumber(a) /\ IsNumber(b)
       /\ RealPart(a) = RealPart(b) /\ ImagPart(a) = ImagPart(b)
  ELSE /\ a.k = b.k
       /\ CASE a.k = "tuple" ->
                 /\ Len(a.items) = Len(b.items)
                 /\ \A i \in 1..Len(a.items) : PyEq(a.items[i], b.items[i])
            [] a.k = "frozenset" ->
                 /\ \A i \in 1..Len(a.items) :
                      \E j \in 1..Len(b.items) : PyEq(a.items[i], b.items[j])
                 /\ \A j \in 1..Len(b.items) :
                      \E i \in 1..Len(a.items) : PyEq(a.items[i], b.items[j])
            [] a.k = "code" -> a.n = b.n
            [] OTHER -> a.b = b.b

(***************************************************************************)
(* Opcodes: pyco.py takes five from dis.opmap (CPython 3.10), updis.py     *)
(* numbers the new ones from 170.                                          *)
(***************************************************************************)
UNARY_NEGATIVE == 11
BUILD_TUPLE == 102
BUILD_SET == 104
EXTENDED_ARG == 144
LOAD_CONST == 100
LAZY_LOAD_CONSTANT == 170
MAKE_STRING == 171
MAKE_INT == 172
MAKE_LONG == 173
MAKE_FLOAT == 174
MAKE_COMPLEX == 175
MAKE_FROZEN_SET == 176
MAKE_CODE_OBJECT == 177
MAKE_BYTES == 178
LOAD_COMMON_CONSTANT == 179
RETURN_CONSTANT == 180

\* dis.hasname and dis.hasconst of CPython 3.10
hasname == {90, 91, 95, 96, 97, 98, 101, 106, 108, 109, 116, 160}

hasconst == {100}

(***************************************************************************)
(* Scalar codecs.  A failed call (an assertion, an exception) is the       *)
(* sequence <<-1>>: no byte is negative.                                   *)
(***************************************************************************)
Failed == <<-1>>

IsFailed(bs) == Len(bs) > 0 /\ bs[1] = -1

RECURSIVE varint_loop(_)
varint_loop(i) ==
  IF i = 0 THEN <<>>
  ELSE LET bits == LowBits(i, 7)
           rest == Shr(i, 7)
       IN <<IF rest # 0 THEN bits + 128 ELSE bits>> \o varint_loop(rest)

encode_varint(i) ==
  IF i = 0 THEN <<0>>
  ELSE IF ~(i > 0) THEN Failed
  ELSE varint_loop(i)

encode_signed_varint(i) ==
  encode_varint(2 * (IF i < 0 THEN -i ELSE i) + (IF i < 0 THEN 1 ELSE 0))

\* struct.pack("<d", x) for the floats of the model (IEEE-754 binary64)
encode_float(x) ==
  CASE x.k = "float" /\ x.n = 0 /\ ~x.z -> <<0, 0, 0, 0, 0, 0, 0, 0>>
    [] x.k = "float" /\ x.n = 0 /\ x.z -> <<0, 0, 0, 0, 0, 0, 0, 128>>
    [] x.k = "float" /\ x.n = 50 -> <<0, 0, 0, 0, 0, 0, 224, 63>>
    [] x.k = "float" /\ x.n = 100 -> <<0, 0, 0, 0, 0, 0, 240, 63>>
    [] x.k = "float" /\ x.n = 314 -> <<31, 133, 235, 81, 184, 30, 9, 64>>
    [] OTHER -> Failed

\* struct.pack("<L", n), struct.pack("<H", n): w little-endian bytes
RECURSIVE pack_le(_, _)
pack_le(n, w) ==
  IF w = 0 THEN <<>> ELSE <<n % 256>> \o pack_le(n \div 256, w - 1)

pack_L(n) == IF n < 0 \/ n \div 65536 >= 65536 THEN Failed ELSE pack_le(n, 4)

pack_H(n) == IF n < 0 \/ n >= 65536 THEN Failed ELSE pack_le(n, 2)

\* str.encode("utf-8") of a sequence of code points
RECURSIVE utf8(_)
utf8(s) ==
  IF s = <<>> THEN <<>>
  ELSE LET c == Head(s)
           e == IF c < 128 THEN <<c>>
                ELSE IF c < 2048 THEN <<192 + (c \div 64), 128 + (c % 64)>>
                ELSE IF c < 65536
                     THEN <<224 + (c \div 4096), 128 + ((c \div 64) % 64),
                            128 + (c % 64)>>
                ELSE <<240 + (c \div 262144), 128 + ((c \div 4096) % 64),
                       128 + ((c \div 64) % 64), 128 + (c % 64)>>
       IN e \o utf8(Tail(s))

\* a \o b where either may be a failed call
Cat(a, b) == IF IsFailed(a) THEN a ELSE IF IsFailed(b) THEN b ELSE a \o b

(***************************************************************************)
(* The pool items and their records.                                       *)
(***************************************************************************)
LongInt(value) == [type |-> "LongInt", value |-> value]

Float(value) == [type |-> "Float", value |-> value]

Bytes(value) == [type |-> "Bytes", value |-> value]

String(value) == [type |-> "String", value |-> value]

LongInt_get_bytes(it) == encode_varint(it.value.n)

Float_get_bytes(it) == encode_float(it.value)

Bytes_get_bytes(it) == encode_varint(Len(it.value.b)) \o it.value.b

\* a value that is no str has no encode()
String_get_bytes(it) ==
  IF it.value.k # "str" THEN Failed
  ELSE LET b == utf8(it.value.b) IN encode_varint(Len(b)) \o b

Blob_get_bytes(it) ==
  CASE it.type = "LongInt" -> LongInt_get_bytes(it)
    [] it.type = "Float" -> Float_get_bytes(it)
    [] it.type = "Bytes" -> Bytes_get_bytes(it)

(***************************************************************************)
(* The code objects handed to the Builder: a module that defines f, the    *)
(* function f(x) with the docstring "d", and a lambda returning 1 (a       *)
(* function-flagged unit whose first constant is no docstring).  A code    *)
(* constant is VCode(position in CodeUnits); strings are code points.      *)
(***************************************************************************)
CodeUnits ==
  << [co_flags |-> 64, co_argcount |-> 0, co_posonlyargcount |-> 0,
      co_kwonlyargcount |-> 0, co_nlocals |-> 0, co_stacksize |-> 2,
      co_name |-> VStr(<<109>>), co_filename |-> VStr(<<116>>),
      co_exceptiontable |-> VBytes(<<>>),
      co_names |-> <<VStr(<<102>>)>>, co_varnames |-> <<>>,
      co_freevars |-> <<>>, co_cellvars |-> <<>>,
      co_consts |-> <<VCode(2), VStr(<<102>>), VNone>>,
      co_code |-> <<100, 0, 100, 1, 132, 0, 90, 0, 100, 2, 83, 0>>],
     [co_flags |-> 67, co_argcount |-> 1, co_posonlyargcount |-> 0,
      co_kwonlyargcount |-> 0, co_nlocals |-> 1, co_stacksize |-> 1,
      co_name |-> VStr(<<102>>), co_filename |-> VStr(<<116>>),
      co_exceptiontable |-> VBytes(<<>>),
      co_names |-> <<>>, co_varnames |-> <<VStr(<<120>>)>>,
      co_freevars |-> <<>>, co_cellvars |-> <<>>,
      co_consts |-> <<VStr(<<100>>)>>,
      co_code |-> <<124, 0, 83, 0>>],
     [co_flags |-> 67, co_argcount |-> 0, co_posonlyargcount |-> 0,
      co_kwonlyargcount |-> 0, co_nlocals |-> 0, co_stacksize |-> 1,
      co_name |-> VStr(<<108>>), co_filename |-> VStr(<<116>>),
      co_exceptiontable |-> VBytes(<<>>),
      co_names |-> <<>>, co_varnames |-> <<>>,
      co_freevars |-> <<>>, co_cellvars |-> <<>>,
      co_consts |-> <<VInt(1)>>,
      co_code |-> <<100, 0, 83, 0>>] >>

(***************************************************************************)
(* The Builder.  B is the Builder's fields plus err, the exception raised  *)
(* by the call in progress ("" for none): once err is set every later step *)
(* of the call is skipped, and what was appended before stays appended.    *)
(* A call returns [B, index] or [B, data].  Where a function goes on with  *)
(* what a call returned, X_then holds the rest of function X and takes     *)
(* what the call returned as an argument.                                  *)
(***************************************************************************)
Builder ==
  [codeobjs |-> <<>>, strings |-> <<>>, blobs |-> <<>>, constants |-> <<>>,
   locked |-> FALSE, err |-> ""]

lock(B) == [B EXCEPT !.locked = TRUE]

Raise(B, e) == IF B.err = "" THEN [B EXCEPT !.err = e] ELSE B

Raised(B, e) == [B |-> Raise(B, e), index |-> -1]

\* the 1-based position of the first match of add's loop, 0 for none
Match(where, thing) ==
  LET hits == {i \in 1..Len(where) :
                 where[i].type = thing.type /\ PyEq(where[i].value, thing.value)}
  IN IF hits = {} THEN 0 ELSE SetMin(hits)

\* m is the match: return it, or append a new one
add_then(B, pool, thing, m) ==
  IF m > 0 THEN [B |-> B, index |-> m - 1]
  ELSE IF B.locked THEN Raised(B, "AssertionError")
  ELSE [B |-> [B EXCEPT ![pool] = Append(@, thing)], index |-> Len(B[pool])]

add(B, pool, thing) ==
  IF B.err # "" THEN [B |-> B, index |-> -1]
  ELSE add_then(B, pool, thing, Match(B[pool], thing))

add_bytes(B, value) == add(B, "blobs", Bytes(value))

add_string(B, value) == add(B, "strings", String(value))

add_long(B, value) == add(B, "blobs", LongInt(value))

add_float(B, value) == add(B, "blobs", Float(value))

ComplexConstant(value) ==
  [type |-> "ComplexConstant", value |-> value, instructions |-> <<>>,
   stacksize |-> 0, max_stacksize |-> 0, index |-> -1, data |-> <<>>]

CodeObject(code) == [type |-> "CodeObject", value |-> code]

emit(cc, opcode, oparg, stackeffect) ==
  [cc EXCEPT !.instructions = Append(@, <<opcode, oparg>>),
             !.stacksize = @ + stackeffect,
             !.max_stacksize = Max(@, cc.stacksize + stackeffect)]

\* data + struct.pack("<L", index), r what the call for the index returned
packed(data, r) ==
  [B |-> r.B, data |-> IF r.B.err # "" THEN data ELSE Cat(data, pack_L(r.index))]

\* add_string for each name in turn; acc.data collects the packed indices
RECURSIVE add_strings(_, _)
add_strings(acc, names) ==
  IF names = <<>> \/ acc.B.err # "" THEN acc
  ELSE add_strings(packed(acc.data, add_string(acc.B, Head(names))), Tail(names))

RECURSIVE add_constant(_, _)
RECURSIVE add_code(_, _)
RECURSIVE generate(_, _, _)
RECURSIVE generate_items(_, _, _)

\* generate_items with the elements generated in place (the TODO of the loop)
generate_items_inline(B, cc, t) ==
  IF t = <<>> \/ B.err # "" THEN [B |-> B, cc |-> cc]
  ELSE LET g == generate(B, cc, Head(t))
       IN generate_items(g.B, g.cc, Tail(t))

\* self.emit(LAZY_LOAD_CONSTANT, oparg, 1) and the rest of the loop, r what
\* add_constant returned
generate_items_then(r, cc, t) ==
  IF r.B.err # "" THEN [B |-> r.B, cc |-> cc]
  ELSE generate_items(r.B, emit(cc, LAZY_LOAD_CONSTANT, r.index, 1), Tail(t))

\* the loop of the tuple/frozenset case of generate
generate_items(B, cc, t) ==
  IF t = <<>> \/ B.err # "" THEN [B |-> B, cc |-> cc]
  ELSE generate_items_then(add_constant(B, Head(t)), cc, t)

\* one blob-index or string-index instruction
emit_added(r, cc, opcode) ==
  [B |-> r.B, cc |-> IF r.B.err # "" THEN cc ELSE emit(cc, opcode, r.index, 1)]

\* generate_complex without the MAKE_COMPLEX that combines the two floats
generate_complex_uncombined(B, cc, value) ==
  LET re == emit_added(add_float(B, value.items[1]), cc, MAKE_FLOAT)
  IN emit_added(add_float(re.B, value.items[2]), re.cc, MAKE_FLOAT)

\* case complex(real=re, imag=im)
generate_complex(B, cc, value) ==
  LET re == emit_added(add_float(B, value.items[1]), cc, MAKE_FLOAT)
      im == emit_added(add_float(re.B, value.items[2]), re.cc, MAKE_FLOAT)
  IN [B |-> im.B,
      cc |-> IF im.B.err # "" THEN im.cc ELSE emit(im.cc, MAKE_COMPLEX, 0, -1)]

\* opcode = BUILD_TUPLE or BUILD_SET, its emit and the assertion on the
\* stack size, g what the loop left
generate_tuple_then(g, old_stacksize, value) ==
  LET opcode == IF value.k = "tuple" THEN BUILD_TUPLE ELSE BUILD_SET
      n == Len(value.items)
      built == emit(g.cc, opcode, n, 1 - n)
  IN IF g.B.err # "" THEN g
     ELSE [B |-> IF built.stacksize = old_stacksize + 1 THEN g.B
                 ELSE Raise(g.B, "AssertionError"),
           cc |-> built]

\* case tuple(t) | frozenset(t)
generate_tuple(B, cc, value) ==
  generate_tuple_then(generate_items(B, cc, value.items), cc.stacksize, value)

generate(B, cc, value) ==
  CASE value.k = "none" -> [B |-> B, cc |-> emit(cc, LOAD_COMMON_CONSTANT, 0, 1)]
    [] value.k = "bool" ->
         [B |-> B, cc |-> emit(cc, LOAD_COMMON_CONSTANT, value.n + 1, 1)]
    [] value.k = "int" /\ 0 <= value.n /\ value.n < 65536 ->
         [B |-> B, cc |-> emit(cc, MAKE_INT, value.n, 1)]
    [] value.k = "int" /\ -256 <= value.n /\ value.n < 0 ->
         [B |-> B, cc |-> emit(emit(cc, MAKE_INT, -value.n, 1), UNARY_NEGATIVE, 0, 0)]
    [] value.k = "int" /\ ~(-256 <= value.n /\ value.n < 65536) ->
         emit_added(add_long(B, value), cc, MAKE_LONG)
    [] value.k = "float" -> emit_added(add_float(B, value), cc, MAKE_FLOAT)
    [] value.k = "complex" -> generate_complex(B, cc, value)
    [] value.k = "bytes" -> emit_added(add_bytes(B, value), cc, MAKE_BYTES)
    [] value.k = "str" -> emit_added(add_string(B, value), cc, MAKE_STRING)
    [] value.k \in {"tuple", "frozenset"} -> generate_tuple(B, cc, value)
    [] value.k = "code" -> emit_added(add_code(B, value), cc, MAKE_CODE_OBJECT)
    [] OTHER -> [B |-> Raise(B, "TypeError"), cc |-> cc]

\* set_index_then with RETURN_CONSTANT naming the next free slot, not its own
set_index_next_slot(g) ==
  IF g.B.err # "" THEN g
  ELSE [B |-> g.B, cc |-> emit(g.cc, RETURN_CONSTANT, Len(g.B.constants), 0)]

\* self.emit(RETURN_CONSTANT, self.index, 0), g what generate left
set_index_then(g) ==
  IF g.B.err # "" THEN g
  ELSE [B |-> g.B, cc |-> emit(g.cc, RETURN_CONSTANT, g.cc.index, 0)]

set_index(B, cc, index) ==
  set_index_then(generate(B, [cc EXCEPT !.index = index], cc.value))

\* return index.  cc is the object add appended when the value is new (what
\* set_index did to it shows in the pool), an object nobody keeps otherwise
add_constant_then(r, appended, g) ==
  [B |-> IF appended THEN [g.B EXCEPT !.constants[r.index + 1] = g.cc] ELSE g.B,
   index |-> IF g.B.err # "" THEN -1 ELSE r.index]

\* cc.set_index(index), r what add returned
add_constant_added(B, cc, r) ==
  IF r.B.err # "" THEN r
  ELSE add_constant_then(r, Len(r.B.constants) > Len(B.constants),
                         set_index(r.B, cc, r.index))

add_constant(B, value) ==
  add_constant_added(B, ComplexConstant(value),
                     add(B, "constants", ComplexConstant(value)))

RECURSIVE add_constants(_, _)
add_constants(B, values) ==
  IF values = <<>> \/ B.err # "" THEN B
  ELSE add_constants(add_constant(B, Head(values)).B, Tail(values))

preload(B, co) ==
  LET code == CodeUnits[co.value.n]
      b1 == add_bytes(B, VBytes(<<>>)).B
      b2 == add_string(b1, code.co_name).B
      b3 == add_string(b2, code.co_filename).B
      b4 == add_bytes(b3, code.co_exceptiontable).B
      b5 == add_strings([B |-> b4, data |-> <<>>],
                        code.co_names \o code.co_varnames
                          \o code.co_freevars \o code.co_cellvars).B
  IN add_constants(b5, code.co_consts)

\* return index, p the Builder preload left
add_code_then(r, p) == [B |-> p, index |-> IF p.err # "" THEN -1 ELSE r.index]

\* co.preload(), r what add returned
add_code_added(co, r) ==
  IF r.B.err # "" THEN r ELSE add_code_then(r, preload(r.B, co))

add_code(B, code) ==
  add_code_added(CodeObject(code), add(B, "codeobjs", CodeObject(code)))

\* the direct code constants of a code object, after the object itself
all_code_objects(code) ==
  LET consts == CodeUnits[code.n].co_consts
      F[i \in 0..Len(consts)] ==
        IF i = 0 THEN <<>>
        ELSE IF consts[i].k = "code" THEN Append(F[i - 1], consts[i]) ELSE F[i - 1]
  IN <<code>> \o F[Len(consts)]

RECURSIVE add_codes(_, _)
add_codes(B, codes) ==
  IF codes = <<>> \/ B.err # "" THEN B
  ELSE add_codes(add_code(B, Head(codes)).B, Tail(codes))

add_everything(B, code) == add_codes(B, all_code_objects(code))

(***************************************************************************)
(* Serialization.                                                          *)
(***************************************************************************)
\* while oparg: opargs.append(oparg & 0xFF); oparg >>= 8
RECURSIVE oparg_groups(_)
oparg_groups(oparg) ==
  IF oparg = 0 THEN <<>>
  ELSE <<LowBits(oparg, 8)>> \o oparg_groups(Shr(oparg, 8))

Reverse(q) == [i \in 1..Len(q) |-> q[Len(q) + 1 - i]]

RECURSIVE extended_args(_)
extended_args(groups) ==
  IF groups = <<>> THEN <<>>
  ELSE <<EXTENDED_ARG, Head(groups)>> \o extended_args(Tail(groups))

\* instruction_bytes without opargs.reverse()
instruction_bytes_unreversed(opcode, oparg) ==
  IF oparg >= 256
  THEN LET opargs == oparg_groups(oparg)
       IN extended_args(SubSeq(opargs, 1, Len(opargs) - 1))
            \o <<opcode, opargs[Len(opargs)]>>
  ELSE IF oparg < 0 THEN Failed
  ELSE <<opcode, oparg>>

\* the bytes one (opcode, oparg) of ComplexConstant.get_bytes adds to data
instruction_bytes(opcode, oparg) ==
  IF oparg >= 256
  THEN LET opargs == Reverse(oparg_groups(oparg))
       IN extended_args(SubSeq(opargs, 1, Len(opargs) - 1))
            \o <<opcode, opargs[Len(opargs)]>>
  ELSE IF oparg < 0 THEN Failed
  ELSE <<opcode, oparg>>

RECURSIVE instructions_bytes(_)
instructions_bytes(instructions) ==
  IF instructions = <<>> THEN <<>>
  ELSE Cat(instruction_bytes(Head(instructions)[1], Head(instructions)[2]),
           instructions_bytes(Tail(instructions)))

\* cc.data is <<>> for None
ComplexConstant_get_bytes(cc) ==
  IF cc.data # <<>> THEN cc.data
  ELSE LET data == instructions_bytes(cc.instructions)
       IN Cat(Cat(pack_L(cc.max_stacksize),
                  IF IsFailed(data) THEN data ELSE pack_L(Len(data) \div 2)),
              data)

\* new.extend((opcode, oparg)), r what the call for oparg returned:
\* bytearray.extend takes values in range(256)
rewritten_instruction_then(new, opcode, r) ==
  IF r.B.err # "" THEN [B |-> r.B, data |-> new]
  ELSE IF r.index >= 256 THEN [B |-> Raise(r.B, "ValueError"), data |-> new]
  ELSE [B |-> r.B, data |-> new \o <<opcode, r.index>>]

\* the body of the loop of rewritten_bytecode for the instruction at i; acc
\* is the Builder and new
rewritten_instruction(acc, code, i) ==
  LET instrs == code.co_code
      opcode == instrs[i + 1]
      oparg == instrs[i + 2]
      preceded == ~(i < 2) /\ instrs[i - 1] = EXTENDED_ARG
  IN IF opcode = LOAD_CONST
     THEN rewritten_instruction_then(
            acc.data, LAZY_LOAD_CONSTANT,
            IF preceded THEN Raised(acc.B, "AssertionError")
            ELSE add_constant(acc.B, code.co_consts[oparg + 1]))
     ELSE rewritten_instruction_then(
            acc.data, opcode,
            IF opcode \in hasconst THEN Raised(acc.B, "AssertionError")
            ELSE IF opcode \in hasname
                 THEN IF preceded THEN Raised(acc.B, "AssertionError")
                      ELSE add_string(acc.B, code.co_names[oparg + 1])
            ELSE [B |-> acc.B, index |-> oparg])

\* the loop of rewritten_bytecode from the instruction at i on; the bytes of
\* new come after those acc.data holds
RECURSIVE rewritten_bytecode(_, _, _)
rewritten_bytecode(acc, code, i) ==
  IF i >= Len(code.co_code) \/ acc.B.err # "" THEN acc
  ELSE rewritten_bytecode(rewritten_instruction(acc, code, i), code, i + 2)

\* the functions whose docstring get_bytes interns: CO_NEWLOCALS | CO_OPTIMIZED
has_docstring(code) ==
  code.co_flags % 4 = 3 /\ code.co_consts # <<>> /\ code.co_consts[1].k # "none"

\* docindex
CodeObject_docindex(B, code) ==
  IF has_docstring(code) THEN add_string(B, code.co_consts[1])
  ELSE [B |-> B, index |-> 0]

then_string(acc, value) == packed(acc.data, add_string(acc.B, value))

then_bytes(acc, value) == packed(acc.data, add_bytes(acc.B, value))

\* the last field of prefix
CodeObject_prefix_then(acc, docindex) ==
  [B |-> acc.B,
   data |-> IF acc.B.err # "" THEN acc.data ELSE acc.data \o pack_L(docindex)]

\* prefix = struct.pack("<11L", ...), d what the call for docindex returned
CodeObject_prefix(code, d) ==
  CodeObject_prefix_then(
    then_bytes(
      then_string(
        then_bytes(
          then_string(
            [B |-> d.B,
             data |-> pack_L(code.co_flags) \o pack_L(code.co_argcount)
                        \o pack_L(code.co_posonlyargcount)
                        \o pack_L(code.co_kwonlyargcount)
                        \o pack_L(code.co_nlocals) \o pack_L(code.co_stacksize)],
            code.co_name),
          code.co_exceptiontable),
        code.co_filename),
      VBytes(<<>>)),
    d.index)

\* codearray
CodeObject_codearray(acc, code) ==
  rewritten_bytecode(
    [B |-> acc.B, data |-> acc.data \o pack_L(Len(code.co_code) \div 2)], code, 0)

\* varnames, freevars, cellvars
CodeObject_names(acc, names) ==
  add_strings([B |-> acc.B, data |-> acc.data \o pack_L(Len(names))], names)

\* return bytes(result)
CodeObject_get_bytes_then(acc) ==
  IF acc.B.err # "" THEN [B |-> acc.B, data |-> Failed] ELSE acc

CodeObject_get_bytes(B, co) ==
  LET code == CodeUnits[co.value.n]
  IN CodeObject_get_bytes_then(
       CodeObject_names(
         CodeObject_names(
           CodeObject_names(
             CodeObject_codearray(
               CodeObject_prefix(code, CodeObject_docindex(B, code)), code),
             code.co_varnames),
           code.co_freevars),
         code.co_cellvars))

\* record_offset counted from the start of the payload
record_offset_relative(binary_section_start, binary_data) ==
  pack_L(Len(binary_data))

\* the offset helper records for the thing it serializes next
record_offset(binary_section_start, binary_data) ==
  pack_L(binary_section_start + Len(binary_data))

\* pyc_header with the size of the payload alone as the total size
pyc_header_payload_size(n_code, prefix_size, binary_section_size) ==
  Cat(Cat(Cat(<<46, 112, 121, 99>> \o pack_H(0), pack_H(n_code)), pack_L(0)),
      pack_L(binary_section_size))

\* b".pyc" + struct.pack("<HHLL", 0, n_code, 0, prefix_size + binary_section_size)
pyc_header(n_code, prefix_size, binary_section_size) ==
  Cat(Cat(Cat(<<46, 112, 121, 99>> \o pack_H(0), pack_H(n_code)), pack_L(0)),
      pack_L(prefix_size + binary_section_size))

\* a value get_bytes of a pool item could not produce raises e
got_bytes(B, data, e) ==
  [B |-> IF IsFailed(data) THEN Raise(B, e) ELSE B, data |-> data]

\* ComplexConstant.get_bytes keeps what it returns in self.data
got_constant(B, i, data) ==
  [B |-> IF IsFailed(data) THEN Raise(B, "ValueError")
         ELSE [B EXCEPT !.constants[i].data = data],
   data |-> data]

\* thing.get_bytes() for entry i (1-based) of the pool
thing_get_bytes(B, pool, i) ==
  CASE pool = "codeobjs" -> CodeObject_get_bytes(B, B.codeobjs[i])
    [] pool = "constants" ->
         got_constant(B, i, ComplexConstant_get_bytes(B.constants[i]))
    [] pool = "strings" ->
         got_bytes(B, String_get_bytes(B.strings[i]), "AttributeError")
    [] pool = "blobs" ->
         got_bytes(B, Blob_get_bytes(B.blobs[i]), "AssertionError")

\* offsets += off; binary_data += got.data
helper_then(acc, off, got) ==
  IF IsFailed(off) THEN [acc EXCEPT !.B = Raise(@, "struct.error")]
  ELSE IF got.B.err # "" THEN [acc EXCEPT !.B = got.B]
  ELSE [B |-> got.B, offsets |-> acc.offsets \o off,
        binary_data |-> acc.binary_data \o got.data]

\* helper(what) of Builder.get_bytes, from entry i (1-based) of the pool on:
\* what is read again at every step, since get_bytes may append to it
RECURSIVE helper(_, _, _, _)
helper(acc, pool, i, binary_section_start) ==
  IF i > Len(acc.B[pool]) \/ acc.B.err # "" THEN acc
  ELSE helper(helper_then(acc, record_offset(binary_section_start, acc.binary_data),
                          thing_get_bytes(acc.B, pool, i)),
              pool, i + 1, binary_section_start)

\* x_offsets = helper(self.x): tables collects the four of them
helper_returned(tables, h) ==
  [B |-> h.B, binary_data |-> h.binary_data, tables |-> Append(tables, h.offsets)]

helper_call(s, pool, binary_section_start) ==
  helper_returned(s.tables,
                  helper([B |-> s.B, offsets |-> <<>>, binary_data |-> s.binary_data],
                         pool, 1, binary_section_start))

binary_section_start(B) ==
  LET code_section_size == 4 * Len(B.codeobjs)
      const_section_size == 4 + 4 * Len(B.constants)
      string_section_size == 4 + 4 * Len(B.strings)
      blob_section_size == 4 + 4 * Len(B.blobs)
  IN 16 + code_section_size + const_section_size + string_section_size
       + blob_section_size

\* get_bytes after its four calls of helper, which left s
Builder_get_bytes_then(s, start) ==
  LET code_offsets == s.tables[1]
      const_offsets == s.tables[2]
      string_offsets == s.tables[3]
      blob_offsets == s.tables[4]
      binary_section_size == Len(s.binary_data)
      prefix_size == 16 + Len(code_offsets) + 4 + Len(const_offsets) + 4
                       + Len(string_offsets) + 4 + Len(blob_offsets)
      header == pyc_header(Len(s.B.codeobjs), prefix_size, binary_section_size)
      prefix == header \o code_offsets
                  \o pack_L(Len(const_offsets) \div 4) \o const_offsets
                  \o pack_L(Len(string_offsets) \div 4) \o string_offsets
                  \o pack_L(Len(blob_offsets) \div 4) \o blob_offsets
  IN IF s.B.err # "" THEN [B |-> s.B, data |-> Failed]
     ELSE IF IsFailed(header) THEN [B |-> Raise(s.B, "struct.error"), data |-> Failed]
     ELSE IF Len(header) # 16 \/ Len(prefix) # start
     THEN [B |-> Raise(s.B, "AssertionError"), data |-> Failed]
     ELSE [B |-> s.B, data |-> prefix \o s.binary_data]

Builder_get_bytes(B) ==
  Builder_get_bytes_then(
    helper_call(
      helper_call(
        helper_call(
          helper_call([B |-> B, binary_data |-> <<>>, tables |-> <<>>],
                      "codeobjs", binary_section_start(B)),
          "constants", binary_section_start(B)),
        "strings", binary_section_start(B)),
      "blobs", binary_section_start(B)),
    binary_section_start(B))

(***************************************************************************)
(* The Reader of unpyc.                                                    *)
(***************************************************************************)
\* struct.unpack("<H", part)[0], struct.unpack("<L", part)[0]
RECURSIVE unpack_le(_)
unpack_le(part) ==
  IF part = <<>> THEN 0 ELSE Head(part) + 256 * unpack_le(Tail(part))

\* the bytes read_raw_bytes(n) returns at pos; Failed for its assertion
read_raw_bytes(data, pos, n) ==
  IF ~(pos + n <= Len(data)) THEN Failed ELSE SubSeq(data, pos + 1, pos + n)

\* read_short and read_long at pos; -1 for a failed read
read_short(data, pos) ==
  IF IsFailed(read_raw_bytes(data, pos, 2)) THEN -1
  ELSE unpack_le(read_raw_bytes(data, pos, 2))

read_long(data, pos) ==
  IF IsFailed(read_raw_bytes(data, pos, 4)) THEN -1
  ELSE unpack_le(read_raw_bytes(data, pos, 4))

read_offsets(data, pos, n) == [j \in 1..n |-> read_long(data, pos + 4 * (j - 1))]

\* read_varint_step with the shift advancing by 6 for every byte
read_varint_step_narrow(rd) ==
  LET byte == rd.data[rd.pos + 1]
  IN [rd EXCEPT !.pos = @ + 1,
                !.result = @ + (byte % 128) * Pow(2, rd.shift),
                !.shift = @ + 6,
                !.pc = IF byte \div 128 = 0 THEN "done" ELSE "loop"]

\* one turn of the loop of Reader.read_varint; rd is the Reader (data, pos)
\* and the frame of the call (result, shift, pc); result |= x adds x, whose
\* bits are above those of result
read_varint_step(rd) ==
  LET byte == rd.data[rd.pos + 1]
  IN [rd EXCEPT !.pos = @ + 1,
                !.result = @ + (byte % 128) * Pow(2, rd.shift),
                !.shift = @ + 7,
                !.pc = IF byte \div 128 = 0 THEN "done" ELSE "loop"]

\* self.data[self.pos] past the end raises IndexError
RECURSIVE read_varint(_)
read_varint(rd) ==
  IF rd.pc = "done" THEN rd
  ELSE IF ~(rd.pos + 1 \in 1..Len(rd.data)) THEN [rd EXCEPT !.pc = "IndexError"]
  ELSE read_varint(read_varint_step(rd))

\* PycFile.load: the header and the four offset tables; ok is FALSE when an
\* assertion of load or of read_raw_bytes fails
PycFile_load(data) ==
  LET version == read_short(data, 4)
      n_code == read_short(data, 6)
      meta_start == read_long(data, 8)
      total_size == read_long(data, 12)
      header_ok == /\ read_raw_bytes(data, 0, 4) = <<46, 112, 121, 99>>
                   /\ version = 0
                   /\ meta_start = 0
                   /\ total_size = Len(data)
      p1 == 16 + 4 * n_code
      n_constants == read_long(data, p1)
      p2 == p1 + 4 + 4 * n_constants
      n_strings == read_long(data, p2)
      p3 == p2 + 4 + 4 * n_strings
      n_blobs == read_long(data, p3)
      p4 == p3 + 4 + 4 * n_blobs
  IN IF ~header_ok \/ n_constants < 0 \/ n_strings < 0 \/ n_blobs < 0
          \/ ~(p4 <= Len(data))
     THEN [ok |-> FALSE, n_code |-> n_code, total_size |-> total_size,
           code_offsets |-> <<>>, const_offsets |-> <<>>,
           string_offsets |-> <<>>, blob_offsets |-> <<>>]
     ELSE [ok |-> TRUE, n_code |-> n_code, total_size |-> total_size,
           code_offsets |-> read_offsets(data, 16, n_code),
           const_offsets |-> read_offsets(data, p1 + 4, n_constants),
           string_offsets |-> read_offsets(data, p2 + 4, n_strings),
           blob_offsets |-> read_offsets(data, p3 + 4, n_blobs)]

(***************************************************************************)
(* bytes.decode("utf-8") to a sequence of code points; Failed for          *)
(* UnicodeDecodeError.                                                     *)
(***************************************************************************)
IsContinuation(bs, k) == k <= Len(bs) /\ bs[k] \in 128..191

RECURSIVE utf8_decode(_)
utf8_decode(bs) ==
  IF bs = <<>> THEN <<>>
  ELSE LET b == Head(bs)
       IN IF b < 128 THEN Cat(<<b>>, utf8_decode(Tail(bs)))
          ELSE IF b \in 194..223 /\ IsContinuation(bs, 2)
          THEN Cat(<<(b % 32) * 64 + (bs[2] % 64)>>,
                   utf8_decode(SubSeq(bs, 3, Len(bs))))
          ELSE IF /\ b \in 224..239
                  /\ IsContinuation(bs, 2)
                  /\ IsContinuation(bs, 3)
                  /\ (b = 224 => bs[2] >= 160)
                  /\ (b = 237 => bs[2] < 160)
          THEN Cat(<<(b % 16) * 4096 + (bs[2] % 64) * 64 + (bs[3] % 64)>>,
                   utf8_decode(SubSeq(bs, 4, Len(bs))))
          ELSE IF /\ b \in 240..244
                  /\ IsContinuation(bs, 2)
                  /\ IsContinuation(bs, 3)
                  /\ IsContinuation(bs, 4)
                  /\ (b = 240 => bs[2] >= 144)
                  /\ (b = 244 => bs[2] < 144)
          THEN Cat(<<(b % 8) * 262144 + (bs[2] % 64) * 4096 + (bs[3] % 64) * 64
                       + (bs[4] % 64)>>,
                   utf8_decode(SubSeq(bs, 5, Len(bs))))
          ELSE Failed

\* Reader(data, pos) entering read_varint
Reader(data, pos) ==
  [data |-> data, pos |-> pos, result |-> 0, shift |-> 0, pc |-> "call", i |-> 0,
   start |-> pos]

\* what a call on a Reader gives: the value it returns, or the exception
Returns(value) == [value |-> value, err |-> ""]

Raises(e) == [value |-> VNone, err |-> e]

\* b = self.read_raw_bytes(n); return n, v the Reader read_varint left
read_bytes_then(v) ==
  IF v.pc = "IndexError" THEN Raises("IndexError")
  ELSE IF IsFailed(read_raw_bytes(v.data, v.pos, v.result))
  THEN Raises("AssertionError")
  ELSE Returns(VInt(v.result))

read_bytes(data, pos) == read_bytes_then(read_varint(Reader(data, pos)))

\* return raw.decode("utf-8")
read_varstring_decoded(s) ==
  IF IsFailed(s) THEN Raises("UnicodeDecodeError") ELSE Returns(VStr(s))

\* raw = self.read_raw_bytes(n_bytes), v the Reader read_varint left
read_varstring_then(v) ==
  IF v.pc = "IndexError" THEN Raises("IndexError")
  ELSE IF IsFailed(read_raw_bytes(v.data, v.pos, v.result))
  THEN Raises("AssertionError")
  ELSE read_varstring_decoded(utf8_decode(read_raw_bytes(v.data, v.pos, v.result)))

read_varstring(data, pos) == read_varstring_then(read_varint(Reader(data, pos)))

read_string(data, offset) == read_varstring(data, offset)

(***************************************************************************)
(* PycFile.  P is the file object: its data, the offset tables and the     *)
(* caches load makes (VNone is the None of a slot not decoded yet), and    *)
(* has_exceptiontable, whether the code objects of the running Python have *)
(* the attribute co_exceptiontable (3.11 on).  A call returns [P, value,   *)
(* err].                                                                   *)
(***************************************************************************)
PycFile(data, has_exceptiontable) ==
  [data |-> data, has_exceptiontable |-> has_exceptiontable, loaded |-> FALSE,
   code_offsets |-> <<>>, const_offsets |-> <<>>, string_offsets |-> <<>>,
   blob_offsets |-> <<>>, code_objects |-> <<>>, constants |-> <<>>,
   strings |-> <<>>, blobs |-> <<>>]

\* the caches of load, f the header and the tables it read
load_then(P, f) ==
  IF ~f.ok THEN P
  ELSE [P EXCEPT !.loaded = TRUE,
                 !.code_offsets = f.code_offsets,
                 !.const_offsets = f.const_offsets,
                 !.string_offsets = f.string_offsets,
                 !.blob_offsets = f.blob_offsets,
                 !.code_objects = [i \in 1..Len(f.code_offsets) |-> VNone],
                 !.constants = [i \in 1..Len(f.const_offsets) |-> VNone],
                 !.strings = [i \in 1..Len(f.string_offsets) |-> VNone],
                 !.blobs = [i \in 1..Len(f.blob_offsets) |-> VNone]]

load(P) == load_then(P, PycFile_load(P.data))

\* self.blobs[i] = b; return b, r what read_bytes gave
PycFile_get_bytes_then(P, i, r) ==
  [P |-> IF r.err # "" THEN P ELSE [P EXCEPT !.blobs[i + 1] = r.value],
   value |-> r.value, err |-> r.err]

PycFile_get_bytes(P, i) ==
  IF ~(0 <= i /\ i < Len(P.blobs)) THEN [P |-> P, value |-> VNone,
                                         err |-> "AssertionError"]
  ELSE IF P.blobs[i + 1].k # "none" THEN [P |-> P, value |-> P.blobs[i + 1], err |-> ""]
  ELSE PycFile_get_bytes_then(P, i, read_bytes(P.data, P.blob_offsets[i + 1]))

\* self.strings[i] = s; return s, r what read_string gave
PycFile_get_string_then(P, i, r) ==
  [P |-> IF r.err # "" THEN P ELSE [P EXCEPT !.strings[i + 1] = r.value],
   value |-> r.value, err |-> r.err]

PycFile_get_string(P, i) ==
  IF ~(0 <= i /\ i < Len(P.strings)) THEN [P |-> P, value |-> VNone,
                                           err |-> "AssertionError"]
  ELSE IF P.strings[i + 1].k # "none"
  THEN [P |-> P, value |-> P.strings[i + 1], err |-> ""]
  ELSE PycFile_get_string_then(P, i, read_string(P.data, P.string_offsets[i + 1]))

\* str(type(None))
NoneTypeName ==
  <<60, 99, 108, 97, 115, 115, 32, 39, 78, 111, 110, 101, 84, 121, 112, 101, 39, 62>>

\* the keyword arguments get_code collects; co_exceptiontable and
\* co_locationtable are VNone once deleted
NoKwargs ==
  [k |-> "codetype", co_flags |-> 0, co_argcount |-> 0, co_posonlyargcount |-> 0,
   co_kwonlyargcount |-> 0, co_nlocals |-> 0, co_stacksize |-> 0,
   co_name |-> VNone, co_exceptiontable |-> VNone, co_filename |-> VNone,
   co_locationtable |-> VNone, co_code |-> <<>>, co_varnames |-> <<>>,
   co_freevars |-> <<>>, co_cellvars |-> <<>>, co_names |-> <<>>]

\* a failed call inside get_code: what it did to the caches stays
Thrown(acc, P, e) == [acc EXCEPT !.P = P, !.err = e]

\* name=reader.read_long()
long_field(acc, name) ==
  IF acc.err # "" THEN acc
  ELSE IF read_long(acc.P.data, acc.pos) < 0 THEN Thrown(acc, acc.P, "AssertionError")
  ELSE [acc EXCEPT !.kwargs[name] = read_long(acc.P.data, acc.pos), !.pos = @ + 4]

\* name=r.value, r what get_string or get_bytes returned for the index read
field_then(acc, name, r) ==
  IF r.err # "" THEN Thrown(acc, r.P, r.err)
  ELSE [acc EXCEPT !.P = r.P, !.kwargs[name] = r.value, !.pos = @ + 4]

\* name=self.get_string(reader.read_long())
string_field(acc, name) ==
  IF acc.err # "" THEN acc
  ELSE IF read_long(acc.P.data, acc.pos) < 0 THEN Thrown(acc, acc.P, "AssertionError")
  ELSE field_then(acc, name, PycFile_get_string(acc.P, read_long(acc.P.data, acc.pos)))

\* name=self.get_bytes(reader.read_long())
bytes_field(acc, name) ==
  IF acc.err # "" THEN acc
  ELSE IF read_long(acc.P.data, acc.pos) < 0 THEN Thrown(acc, acc.P, "AssertionError")
  ELSE field_then(acc, name, PycFile_get_bytes(acc.P, read_long(acc.P.data, acc.pos)))

\* docstring = self.get_string(docindex), r what it returned
docstring_then(acc, r) ==
  IF r.err # "" THEN Thrown(acc, r.P, r.err)
  ELSE [acc EXCEPT !.P = r.P, !.pos = @ + 4]

\* docindex = reader.read_long(); if docindex: ...
docstring_field(acc) ==
  IF acc.err # "" THEN acc
  ELSE IF read_long(acc.P.data, acc.pos) < 0 THEN Thrown(acc, acc.P, "AssertionError")
  ELSE IF read_long(acc.P.data, acc.pos) # 0
  THEN docstring_then(acc, PycFile_get_string(acc.P, read_long(acc.P.data, acc.pos)))
  ELSE [acc EXCEPT !.pos = @ + 4]

\* ninstrs = reader.read_long(); co_code=reader.read_raw_bytes(2 * ninstrs)
code_field(acc) ==
  LET ninstrs == read_long(acc.P.data, acc.pos)
      co_code == read_raw_bytes(acc.P.data, acc.pos + 4, 2 * ninstrs)
  IN IF acc.err # "" THEN acc
     ELSE IF ninstrs < 0 \/ IsFailed(co_code) THEN Thrown(acc, acc.P, "AssertionError")
     ELSE [acc EXCEPT !.kwargs.co_code = co_code, !.pos = @ + 4 + 2 * ninstrs]

\* one self.get_string(i) of the tuple, r what it returned
get_strings_then(got, r) ==
  [P |-> r.P, values |-> IF r.err # "" THEN got.values ELSE Append(got.values, r.value),
   err |-> r.err]

\* tuple(self.get_string(i) for i in offsets)
RECURSIVE get_strings(_, _)
get_strings(got, offsets) ==
  IF offsets = <<>> \/ got.err # "" THEN got
  ELSE get_strings(get_strings_then(got, PycFile_get_string(got.P, Head(offsets))),
                   Tail(offsets))

\* kwargs.update(name=...), got what the tuple's calls left
names_field_then(acc, name, n, got) ==
  IF got.err # "" THEN Thrown(acc, got.P, got.err)
  ELSE [acc EXCEPT !.P = got.P, !.kwargs[name] = got.values, !.pos = @ + 4 + 4 * n]

\* n = reader.read_long(); offsets = [reader.read_long() for _ in range(n)]
names_field(acc, name) ==
  LET n == read_long(acc.P.data, acc.pos)
      offsets == read_offsets(acc.P.data, acc.pos + 4, n)
  IN IF acc.err # "" THEN acc
     ELSE IF n < 0 \/ ~(acc.pos + 4 + 4 * n <= Len(acc.P.data))
     THEN Thrown(acc, acc.P, "AssertionError")
     ELSE names_field_then(acc, name, n,
                           get_strings([P |-> acc.P, values |-> <<>>, err |-> ""],
                                       offsets))

\* co_names=tuple(s if isinstance(s, str) else str(type(s)) for s in self.strings)
co_names_field(acc) ==
  IF acc.err # "" THEN acc
  ELSE [acc EXCEPT !.kwargs.co_names =
          [j \in 1..Len(acc.P.strings) |->
             IF acc.P.strings[j].k = "str" THEN acc.P.strings[j]
             ELSE VStr(NoneTypeName)]]

\* if not hasattr(code, "co_exceptiontable"): del kwargs["co_exceptiontable"];
\* no code object has the attribute co_locationtable
deleted_fields(acc) ==
  [acc EXCEPT !.kwargs.co_exceptiontable =
                IF acc.P.has_exceptiontable THEN @ ELSE VNone,
              !.kwargs.co_locationtable = VNone]

\* code = code.replace(**kwargs); self.code_objects[i] = code; return code:
\* replace takes bytes for co_exceptiontable
PycFile_get_code_then(i, acc) ==
  IF acc.err # "" THEN [P |-> acc.P, value |-> VNone, err |-> acc.err]
  ELSE IF acc.P.has_exceptiontable /\ acc.kwargs.co_exceptiontable.k # "bytes"
  THEN [P |-> acc.P, value |-> VNone, err |-> "TypeError"]
  ELSE [P |-> [acc.P EXCEPT !.code_objects[i + 1] = acc.kwargs],
        value |-> acc.kwargs, err |-> ""]

\* the six counts of kwargs, read from the record at offset
get_code_counts(P, offset) ==
  long_field(
    long_field(
      long_field(
        long_field(
          long_field(
            long_field([P |-> P, pos |-> offset, kwargs |-> NoKwargs, err |-> ""],
                       "co_flags"),
            "co_argcount"),
          "co_posonlyargcount"),
        "co_kwonlyargcount"),
      "co_nlocals"),
    "co_stacksize")

\* the four fields of kwargs that are pool entries
get_code_entries(acc) ==
  bytes_field(
    string_field(
      bytes_field(string_field(acc, "co_name"), "co_exceptiontable"),
      "co_filename"),
    "co_locationtable")

\* get_code from docindex on
get_code_rest(acc) ==
  co_names_field(
    names_field(
      names_field(
        names_field(code_field(deleted_fields(docstring_field(acc))),
                    "co_varnames"),
        "co_freevars"),
      "co_cellvars"))

PycFile_get_code(P, i) ==
  IF ~(0 <= i /\ i < Len(P.code_objects))
  THEN [P |-> P, value |-> VNone, err |-> "AssertionError"]
  ELSE IF P.code_objects[i + 1].k # "none"
  THEN [P |-> P, value |-> P.code_objects[i + 1], err |-> ""]
  ELSE PycFile_get_code_then(
         i, get_code_rest(get_code_entries(get_code_counts(P, P.code_offsets[i + 1]))))

(***************************************************************************)
(* State.  The Builder's fields; last, the call that was made last, with   *)
(* what it returned or raised; ncalls, the number of intern calls made.    *)
(* rd is a Reader inside read_varint, cc a ComplexConstant on its own.     *)
(* pyc is a PycFile and got the call that was made last on it.             *)
(***************************************************************************)
VARIABLES codeobjs, strings, blobs, constants, locked, last, ncalls, rd, cc, pyc,
          got

vars ==
  <<codeobjs, strings, blobs, constants, locked, last, ncalls, rd, cc, pyc, got>>

builder_vars == <<codeobjs, strings, blobs, constants, locked, last, ncalls>>

\* the most intern calls made on one Builder
MaxCalls == 2

HelloWorld == <<72, 101, 108, 108, 111, 32, 119, 111, 114, 108, 100>>

NiHao == <<20320, 22909>>

hello_world == <<104, 101, 108, 108, 111, 32, 119, 111, 114, 108, 100>>

\* the tuple of pyco.main
MainTuple ==
  VTuple(<<VInt(0), VInt(1000), VInt(-1), VStr(HelloWorld), VStr(NiHao),
           VBytes(hello_world), VFloat(314), VComplex(VFloat(0), VFloat(50))>>)

StringArgs == {VStr(<<100>>), VStr(<<102>>)}

BytesArgs == {VBytes(<<>>), VBytes(<<104>>)}

LongArgs == {VInt(70000), VInt(-70000)}

FloatArgs == {VFloat(0), VNegZero, VFloat(50)}

ConstantArgs ==
  {VNone, VTrue, VFalse, VInt(0), VInt(1), VInt(-1), VInt(65535), VInt(65536),
   VInt(-256), VInt(-257), VInt(-70000), VFloat(100), VFloat(0), VNegZero,
   VComplex(VFloat(0), VFloat(50)), VBytes(<<104>>), VStr(<<100>>),
   VTuple(<<>>), VTuple(<<VInt(1), VTrue>>),
   VTuple(<<VTuple(<<>>), VStr(<<100>>), VTuple(<<>>)>>),
   VFrozenset(<<>>), VFrozenset(<<VInt(1), VStr(<<100>>)>>),
   VCode(2), MainTuple, VEllipsis}

CodeArgs == {VCode(c) : c \in 1..Len(CodeUnits)}

Cur ==
  [codeobjs |-> codeobjs, strings |-> strings, blobs |-> blobs,
   constants |-> constants, locked |-> locked, err |-> ""]

\* the 0-based position of the entry of the same type, kind and content, or -1
Seen(where, thing) ==
  LET hits == {i \in 1..Len(where) :
                 where[i].type = thing.type /\ where[i].value = thing.value}
  IN IF hits = {} THEN -1 ELSE SetMin(hits) - 1

NoCall ==
  [op |-> "", pool |-> "", arg |-> VNone, index |-> -1, err |-> "",
   locked |-> FALSE, seen |-> -1, size |-> 0, data |-> <<>>]

\* a Reader on no data, outside read_varint
NoReader ==
  [data |-> <<>>, pos |-> 0, result |-> 0, shift |-> 0, pc |-> "", i |-> 0,
   start |-> 0]

\* no file read, and no call made on one
NoPycFile == PycFile(<<>>, FALSE)

NoGot == [op |-> "", i |-> 0, hit |-> FALSE, value |-> VNone, err |-> ""]

Init ==
  /\ codeobjs = <<>>
  /\ strings = <<>>
  /\ blobs = <<>>
  /\ constants = <<>>
  /\ locked = FALSE
  /\ last = NoCall
  /\ ncalls = 0
  /\ rd = NoReader
  /\ pyc = NoPycFile
  /\ got = NoGot
  /\ cc = ComplexConstant(VNone)

\* the Builder after a call that left it as B
Becomes(B) ==
  /\ codeobjs' = B.codeobjs
  /\ strings' = B.strings
  /\ blobs' = B.blobs
  /\ constants' = B.constants
  /\ locked' = B.locked

\* an intern call on pool with the item thing, that returned r.  A call that
\* raised ends the build: pyco.main and tests.main make no other call on
\* that Builder.
Intern(op, pool, thing, r) ==
  /\ last.err = ""
  /\ ncalls < MaxCalls
  /\ ncalls' = ncalls + 1
  /\ Becomes(r.B)
  /\ last' = [op |-> op, pool |-> pool, arg |-> thing.value, index |-> r.index,
              err |-> r.B.err, locked |-> locked, seen |-> Seen(Cur[pool], thing),
              size |-> Len(Cur[pool]), data |-> <<>>]
  /\ UNCHANGED <<rd, cc, pyc, got>>

AddString == \E v \in StringArgs : Intern("add_string", "strings", String(v), add_string(Cur, v))

AddBytes == \E v \in BytesArgs : Intern("add_bytes", "blobs", Bytes(v), add_bytes(Cur, v))

AddLong == \E v \in LongArgs : Intern("add_long", "blobs", LongInt(v), add_long(Cur, v))

AddFloat == \E v \in FloatArgs : Intern("add_float", "blobs", Float(v), add_float(Cur, v))

AddConstant ==
  \E v \in ConstantArgs :
    Intern("add_constant", "constants", ComplexConstant(v), add_constant(Cur, v))

AddCode ==
  \E v \in CodeArgs : Intern("add_code", "codeobjs", CodeObject(v), add_code(Cur, v))

AddEverything ==
  \E v \in CodeArgs :
    Intern("add_everything", "codeobjs", CodeObject(v),
           [B |-> add_everything(Cur, v), index |-> -1])

Lock ==
  /\ last.err = ""
  /\ ~locked
  /\ Becomes(lock(Cur))
  /\ last' = [NoCall EXCEPT !.op = "lock"]
  /\ UNCHANGED <<ncalls, rd, cc, pyc, got>>

\* a call of get_bytes that returned r
Serialized(r) ==
  /\ Becomes(r.B)
  /\ last' = [NoCall EXCEPT !.op = "get_bytes", !.err = r.B.err,
                            !.locked = locked, !.data = r.data]
  /\ UNCHANGED <<ncalls, rd, cc, pyc, got>>

GetBytes ==
  /\ last.err = ""
  /\ last.op # "get_bytes"
  /\ Serialized(Builder_get_bytes(Cur))

Next ==
  \/ AddString
  \/ AddBytes
  \/ AddLong
  \/ AddFloat
  \/ AddConstant
  \/ AddCode
  \/ AddEverything
  \/ Lock
  \/ GetBytes

Spec == Init /\ [][Next]_vars

(***************************************************************************)
(* What a constant-program builds when it is executed: the instruction     *)
(* set of section 4.3 on an evaluation stack, string and blob operands     *)
(* resolved through the pools of B, LAZY_LOAD_CONSTANT through the         *)
(* constant pool.                                                          *)
(***************************************************************************)
Corrupt == Val("corrupt", 0, FALSE, <<>>, <<>>)

Top(stack) == IF stack = <<>> THEN Corrupt ELSE stack[Len(stack)]

Pop(stack, n) == SubSeq(stack, 1, Len(stack) - n)

LastN(stack, n) == SubSeq(stack, Len(stack) - n + 1, Len(stack))

At(pool, i) == IF i + 1 \in 1..Len(pool) THEN pool[i + 1].value ELSE Corrupt

RECURSIVE Reconstructed(_, _)
RECURSIVE Execute(_, _, _)
Execute(B, ins, stack) ==
  IF ins = <<>> THEN <<Corrupt>>
  ELSE LET op == Head(ins)[1]
           arg == Head(ins)[2]
           rest == Tail(ins)
       IN CASE op = RETURN_CONSTANT -> stack
            [] op = LOAD_COMMON_CONSTANT ->
                 Execute(B, rest, Append(stack, CASE arg = 0 -> VNone
                                                  [] arg = 1 -> VFalse
                                                  [] arg = 2 -> VTrue
                                                  [] OTHER -> Corrupt))
            [] op = MAKE_INT -> Execute(B, rest, Append(stack, VInt(arg)))
            [] op = UNARY_NEGATIVE ->
                 Execute(B, rest, Append(Pop(stack, 1), VInt(-Top(stack).n)))
            [] op \in {MAKE_LONG, MAKE_FLOAT, MAKE_BYTES} ->
                 Execute(B, rest, Append(stack, At(B.blobs, arg)))
            [] op = MAKE_STRING -> Execute(B, rest, Append(stack, At(B.strings, arg)))
            [] op = MAKE_CODE_OBJECT ->
                 Execute(B, rest, Append(stack, At(B.codeobjs, arg)))
            [] op = MAKE_COMPLEX ->
                 Execute(B, rest,
                         Append(Pop(stack, 2),
                                VComplex(LastN(stack, 2)[1], LastN(stack, 2)[2])))
            [] op = LAZY_LOAD_CONSTANT ->
                 Execute(B, rest, Append(stack, Reconstructed(B, arg)))
            [] op = BUILD_TUPLE ->
                 Execute(B, rest, Append(Pop(stack, arg), VTuple(LastN(stack, arg))))
            [] op = BUILD_SET ->
                 Execute(B, rest, Append(Pop(stack, arg), VFrozenset(LastN(stack, arg))))
            [] OTHER -> <<Corrupt>>

Reconstructed(B, k) ==
  IF k + 1 \in 1..Len(B.constants)
  THEN Top(Execute(B, B.constants[k + 1].instructions, <<>>))
  ELSE Corrupt

InternOps ==
  {"add_string", "add_bytes", "add_long", "add_float", "add_constant", "add_code"}

\* the last call was an intern call that returned an index
Returned == last.op \in InternOps /\ last.err = ""

(***************************************************************************)
(* C1  Round trip of constants: after add_constant(v) returned index k,    *)
(* executing the constant-program at slot k reconstructs a value of the    *)
(* same kind and the same content as v.                                    *)
(***************************************************************************)
ConstantRoundTrip ==
  (last.op = "add_constant" /\ last.err = "")
    => Reconstructed(Cur, last.index) = last.arg

(***************************************************************************)
(* C2  Interning determinism: a call with a value that is in the pool (in  *)
(* kind and content) returns that entry's index; the entry at the index a  *)
(* call returns holds the call's value in kind and content, so that values *)
(* that differ get different indices; a first-seen value gets the index    *)
(* equal to the number of values interned in that pool before it.          *)
(***************************************************************************)
InterningDeterminism ==
  Returned =>
    /\ last.seen >= 0 => last.index = last.seen
    /\ At(Cur[last.pool], last.index) = last.arg
    /\ last.seen = -1 => last.index = last.size

(***************************************************************************)
(* C3  Seal discipline: on a locked Builder an intern call on a value that *)
(* is not in the pool (in kind and content) fails, and an intern call on a *)
(* value that is in the pool succeeds and returns its index.               *)
(***************************************************************************)
SealDiscipline ==
  (last.op \in InternOps /\ last.locked) =>
    /\ last.seen = -1 => last.err # ""
    /\ last.seen >= 0 => (last.err = "" /\ last.index = last.seen)

(***************************************************************************)
(* The stack effect of one instruction of a constant-program: what it pops *)
(* and what it pushes.                                                     *)
(***************************************************************************)
Pops(instr) ==
  CASE instr[1] \in {BUILD_TUPLE, BUILD_SET} -> instr[2]
    [] instr[1] = MAKE_COMPLEX -> 2
    [] instr[1] = UNARY_NEGATIVE -> 1
    [] OTHER -> 0

Pushes(instr) == IF instr[1] = RETURN_CONSTANT THEN 0 ELSE 1

\* the depth after each instruction, 0 before the first
Depths(ins) ==
  LET D[i \in 0..Len(ins)] ==
        IF i = 0 THEN 0 ELSE D[i - 1] - Pops(ins[i]) + Pushes(ins[i])
  IN D

StackAccounted(ins) ==
  /\ Len(ins) >= 1
  /\ ins[Len(ins)][1] = RETURN_CONSTANT
  /\ \A i \in 1..Len(ins) : Depths(ins)[i - 1] >= Pops(ins[i])
  /\ Depths(ins)[Len(ins) - 1] = 1

(***************************************************************************)
(* C4  Stack accounting: simulating the stack effect of the instructions   *)
(* of every constant-program in order never pops below depth 0 and gives   *)
(* depth exactly 1 immediately before the terminal RETURN_CONSTANT.        *)
(***************************************************************************)
StackAccounting ==
  last.err = "" =>
    \A i \in 1..Len(constants) : StackAccounted(constants[i].instructions)

\* a build holding the tuple of pyco.main: a tuple of eight, a complex, a
\* negative small int; and a build holding an empty tuple inside a tuple
StackAccountingWitness ==
  /\ last.err = ""
  /\ \E i \in 1..Len(constants) : constants[i].value = MainTuple
  /\ \E i, j \in 1..Len(constants) :
       /\ constants[i].value = VTuple(<<>>)
       /\ constants[j].value.k = "tuple"
       /\ <<LAZY_LOAD_CONSTANT, i - 1>> \in
            {constants[j].instructions[x] : x \in 1..Len(constants[j].instructions)}

(***************************************************************************)
(* C5  Self-reference: every constant-program in the pool ends with one    *)
(* RETURN_CONSTANT, in last position and nowhere else, whose operand is    *)
(* the position of the program in the pool.                                *)
(***************************************************************************)
SelfReference ==
  last.err = "" =>
    \A i \in 1..Len(constants) :
      LET ins == constants[i].instructions
      IN /\ Len(ins) >= 1
         /\ ins[Len(ins)] = <<RETURN_CONSTANT, i - 1>>
         /\ \A j \in 1..(Len(ins) - 1) : ins[j][1] # RETURN_CONSTANT

\* a value interned a second time, in a pool where a composite loads an
\* element that was registered while the composite was generated
SelfReferenceWitness ==
  /\ last.op = "add_constant"
  /\ last.err = ""
  /\ last.seen >= 0
  /\ \E i \in 1..Len(constants) :
       \E x \in 1..Len(constants[i].instructions) :
         /\ constants[i].instructions[x][1] = LAZY_LOAD_CONSTANT
         /\ constants[i].instructions[x][2] > i - 1

(***************************************************************************)
(* C6  Header totals: in the buffer get_bytes returns, the total-size      *)
(* field of the header (4 bytes, little-endian, at 12) is the length of    *)
(* the buffer, and the code-unit count (2 bytes at 6) is the number of     *)
(* entries of the code-unit pool.                                          *)
(***************************************************************************)
HeaderTotals ==
  (last.op = "get_bytes" /\ last.err = "") =>
    /\ Len(last.data) >= 16
    /\ read_long(last.data, 12) = Len(last.data)
    /\ read_short(last.data, 6) = Len(codeobjs)

\* a buffer with code units in it, whose size takes more than one byte
HeaderTotalsWitness ==
  /\ last.op = "get_bytes"
  /\ last.err = ""
  /\ Len(codeobjs) >= 2
  /\ Len(last.data) >= 256

(***************************************************************************)
(* The records of the four pools of B as get_bytes of each entry gives     *)
(* them, in the order code units, constants, strings, blobs; and the       *)
(* offsets of the four tables of a loaded file in the same order.          *)
(***************************************************************************)
Records(B) ==
  [i \in 1..Len(B.codeobjs) |-> CodeObject_get_bytes(B, B.codeobjs[i]).data]
    \o [i \in 1..Len(B.constants) |->
          ComplexConstant_get_bytes([B.constants[i] EXCEPT !.data = <<>>])]
    \o [i \in 1..Len(B.strings) |-> String_get_bytes(B.strings[i])]
    \o [i \in 1..Len(B.blobs) |-> Blob_get_bytes(B.blobs[i])]

Offsets(f) ==
  f.code_offsets \o f.const_offsets \o f.string_offsets \o f.blob_offsets

\* the size of the four offset tables, the counts of three of them included
TablesSize(B) ==
  4 * Len(B.codeobjs) + (4 + 4 * Len(B.constants)) + (4 + 4 * Len(B.strings))
    + (4 + 4 * Len(B.blobs))

(***************************************************************************)
(* C7  Absolute offsets: in the buffer get_bytes returns, each pool's      *)
(* table has one offset per entry; the record of an entry is found at its  *)
(* offset counted from the start of the buffer; each record begins where   *)
(* the one before it ends, in the order code units, constants, strings,    *)
(* blobs; the first begins at 16 plus the size of the four tables and the  *)
(* last ends with the buffer.                                              *)
(***************************************************************************)
AbsoluteOffsets ==
  (last.op = "get_bytes" /\ last.err = "") =>
    LET f == PycFile_load(last.data)
        offs == Offsets(f)
        recs == Records(Cur)
    IN /\ f.ok
       /\ Len(f.code_offsets) = Len(codeobjs)
       /\ Len(f.const_offsets) = Len(constants)
       /\ Len(f.string_offsets) = Len(strings)
       /\ Len(f.blob_offsets) = Len(blobs)
       /\ \A i \in 1..Len(recs) :
            /\ ~IsFailed(recs[i])
            /\ offs[i] + Len(recs[i]) <= Len(last.data)
            /\ SubSeq(last.data, offs[i] + 1, offs[i] + Len(recs[i])) = recs[i]
            /\ i < Len(recs) => offs[i + 1] = offs[i] + Len(recs[i])
       /\ Len(recs) > 0 =>
            /\ offs[1] = 16 + TablesSize(Cur)
            /\ offs[Len(recs)] + Len(recs[Len(recs)]) = Len(last.data)

\* a buffer with entries in all four pools, two at least in each but the
\* code units
AbsoluteOffsetsWitness ==
  /\ last.op = "get_bytes"
  /\ last.err = ""
  /\ Len(codeobjs) >= 1
  /\ Len(constants) >= 2
  /\ Len(strings) >= 2
  /\ Len(blobs) >= 2

(***************************************************************************)
(* The end-to-end scenario of pyco.main: add_constant with the tuple       *)
(* (0, 1000, -1, "Hello world", "你好", b"hello world", 3.14, 0.5j) as the  *)
(* first call on a Builder.                                                *)
(***************************************************************************)
MainBuilt ==
  /\ ncalls = 1
  /\ last.op = "add_constant"
  /\ last.arg = MainTuple
  /\ last.err = ""

MainPools ==
  /\ strings = <<String(VStr(HelloWorld)), String(VStr(NiHao))>>
  /\ blobs = <<Bytes(VBytes(hello_world)), Float(VFloat(314)), Float(VFloat(0)),
               Float(VFloat(50))>>

(***************************************************************************)
(* C8 as stated  The scenario leaves the string pool and the blob pool as  *)
(* listed, and the program of the outer tuple is the elements' own         *)
(* instructions in a row, then build-tuple(8) and return-constant(self),   *)
(* with max stack depth 8.                                                 *)
(***************************************************************************)
MainScenario ==
  MainBuilt =>
    /\ MainPools
    /\ constants[1].instructions =
         << <<MAKE_INT, 0>>, <<MAKE_INT, 1000>>, <<MAKE_INT, 1>>,
            <<UNARY_NEGATIVE, 0>>, <<MAKE_STRING, 0>>, <<MAKE_STRING, 1>>,
            <<MAKE_BYTES, 0>>, <<MAKE_FLOAT, 1>>, <<MAKE_FLOAT, 2>>,
            <<MAKE_FLOAT, 3>>, <<MAKE_COMPLEX, 0>>, <<BUILD_TUPLE, 8>>,
            <<RETURN_CONSTANT, 0>> >>
    /\ constants[1].max_stacksize = 8

(***************************************************************************)
(* C8 amended  The scenario leaves the string pool and the blob pool as    *)
(* listed; the program of the outer tuple, in slot 0, loads the constants  *)
(* of slots 1 to 8, then build-tuple(8) and return-constant(0), with max   *)
(* stack depth 8; and slots 1 to 8 hold the programs of the elements in    *)
(* order, each ending with the return-constant of its own slot.            *)
(***************************************************************************)
MainScenarioRegistered ==
  MainBuilt =>
    /\ MainPools
    /\ constants[1].value = MainTuple
    /\ constants[1].instructions =
         [i \in 1..8 |-> <<LAZY_LOAD_CONSTANT, i>>]
           \o << <<BUILD_TUPLE, 8>>, <<RETURN_CONSTANT, 0>> >>
    /\ constants[1].max_stacksize = 8
    /\ [i \in 1..(Len(constants) - 1) |-> constants[i + 1].instructions] =
         << << <<MAKE_INT, 0>>, <<RETURN_CONSTANT, 1>> >>,
            << <<MAKE_INT, 1000>>, <<RETURN_CONSTANT, 2>> >>,
            << <<MAKE_INT, 1>>, <<UNARY_NEGATIVE, 0>>, <<RETURN_CONSTANT, 3>> >>,
            << <<MAKE_STRING, 0>>, <<RETURN_CONSTANT, 4>> >>,
            << <<MAKE_STRING, 1>>, <<RETURN_CONSTANT, 5>> >>,
            << <<MAKE_BYTES, 0>>, <<RETURN_CONSTANT, 6>> >>,
            << <<MAKE_FLOAT, 1>>, <<RETURN_CONSTANT, 7>> >>,
            << <<MAKE_FLOAT, 2>>, <<MAKE_FLOAT, 3>>, <<MAKE_COMPLEX, 0>>,
               <<RETURN_CONSTANT, 8>> >> >>

\* the scenario has run
MainScenarioWitness == MainBuilt /\ Len(constants) = 9

(***************************************************************************)
(* ComplexConstant.get_bytes on its own.  cc is a constant-program as      *)
(* generate and set_index leave it for a small int or for a tuple of one   *)
(* element, in a pool large enough for the indices to need one to four     *)
(* bytes.                                                                  *)
(***************************************************************************)
WidenOperands ==
  {0, 1, 255, 256, 257, 65535, 65536, 16777215, 16777216, 2147483647}

\* what set_index leaves of the program of the int n in slot index
IntProgram(n, index) ==
  emit(emit([ComplexConstant(VInt(n)) EXCEPT !.index = index], MAKE_INT, n, 1),
       RETURN_CONSTANT, index, 0)

\* what set_index leaves of the program of the tuple (v,) in slot index, v
\* in slot item
TupleProgram(v, item, index) ==
  emit(emit(emit([ComplexConstant(VTuple(<<v>>)) EXCEPT !.index = index],
                 LAZY_LOAD_CONSTANT, item, 1),
            BUILD_TUPLE, 1, 0),
       RETURN_CONSTANT, index, 0)

InitWiden ==
  /\ codeobjs = <<>>
  /\ strings = <<>>
  /\ blobs = <<>>
  /\ constants = <<>>
  /\ locked = FALSE
  /\ last = NoCall
  /\ ncalls = 0
  /\ rd = NoReader
  /\ pyc = NoPycFile
  /\ got = NoGot
  /\ \E index \in WidenOperands :
       \/ \E n \in {x \in WidenOperands : x < 65536} : cc = IntProgram(n, index)
       \/ \E item \in WidenOperands \ {index} : cc = TupleProgram(VNone, item, index)

\* cc.get_bytes(), which keeps what it returns in self.data
Serialize ==
  /\ cc' = [cc EXCEPT !.data = ComplexConstant_get_bytes(cc)]
  /\ UNCHANGED <<builder_vars, rd, pyc, got>>

NextWiden == Serialize

SpecWiden == InitWiden /\ [][NextWiden]_vars

\* the instructions of a record's code, the bytes of the extend-argument
\* prefixes accumulated into the operand of the instruction after them
RECURSIVE Disassemble(_, _)
Disassemble(code, ext) ==
  IF Len(code) < 2 THEN <<>>
  ELSE IF code[1] = EXTENDED_ARG
  THEN Disassemble(SubSeq(code, 3, Len(code)), (ext + code[2]) * 256)
  ELSE << <<code[1], ext + code[2]>> >> \o Disassemble(SubSeq(code, 3, Len(code)), 0)

\* the number of 8-bit groups of an operand
Groups(oparg) ==
  IF oparg < 256 THEN 1
  ELSE IF oparg < 65536 THEN 2
  ELSE IF oparg < 16777216 THEN 3
  ELSE 4

\* the 2-byte instructions an instruction sequence takes, prefixes included
RECURSIVE Widened(_)
Widened(ins) ==
  IF ins = <<>> THEN 0 ELSE Groups(Head(ins)[2]) + Widened(Tail(ins))

(***************************************************************************)
(* C9  Operand widening: the record get_bytes writes for a                 *)
(* constant-program holds, for each instruction, one extend-argument       *)
(* instruction for every 8-bit group of the operand above the lowest,      *)
(* most significant first, and then the instruction with the lowest 8      *)
(* bits, so that accumulating the prefixes gives the instructions back;    *)
(* an operand below 256 gets no prefix; the instruction count of the       *)
(* record counts the prefixes.                                             *)
(***************************************************************************)
OperandWidening ==
  cc.data # <<>> =>
    LET code == SubSeq(cc.data, 9, Len(cc.data))
    IN /\ read_long(cc.data, 0) = cc.max_stacksize
       /\ Len(code) = 2 * read_long(cc.data, 4)
       /\ read_long(cc.data, 4) = Widened(cc.instructions)
       /\ \A k \in 1..Len(code) : code[k] \in 0..255
       /\ Disassemble(code, 0) = cc.instructions

\* a record written for a program with an operand of four groups and one of
\* one group
OperandWideningWitness ==
  /\ cc.data # <<>>
  /\ \E k \in 1..Len(cc.instructions) : cc.instructions[k][2] >= 16777216
  /\ \E k \in 1..Len(cc.instructions) : cc.instructions[k][2] = 255
  /\ read_long(cc.data, 4) > Len(cc.instructions)

(***************************************************************************)
(* Reader.read_varint on its own, on the bytes of encode_varint(i) that    *)
(* follow start bytes of other data and are followed by more data.         *)
(***************************************************************************)
\* the integers below it are all tried
MaxVarint == 300

\* the most bytes before the varint
MaxPad == 2

VarintInputs ==
  0..MaxVarint \cup {16383, 16384, 2097151, 2097152, 268435455, 268435456,
                     2147483647}

InitVarint ==
  /\ codeobjs = <<>>
  /\ strings = <<>>
  /\ blobs = <<>>
  /\ constants = <<>>
  /\ locked = FALSE
  /\ last = NoCall
  /\ ncalls = 0
  /\ cc = ComplexConstant(VNone)
  /\ pyc = NoPycFile
  /\ got = NoGot
  /\ \E i \in VarintInputs, start \in 0..MaxPad :
       rd = [data |-> [k \in 1..start |-> 255] \o encode_varint(i) \o <<255>>,
             pos |-> start, result |-> 0, shift |-> 0, pc |-> "call", i |-> i,
             start |-> start]

\* one call of read_varint
ReadVarint ==
  /\ rd.pc = "call"
  /\ rd' = read_varint(rd)
  /\ UNCHANGED <<builder_vars, cc, pyc, got>>

NextVarint == ReadVarint

SpecVarint == InitVarint /\ [][NextVarint]_vars

(***************************************************************************)
(* C10  Varint law: read_varint on the bytes of encode_varint(i) returns i *)
(* and leaves the position right after those bytes; every byte of          *)
(* encode_varint(i) but the last has its high bit set and the last has it  *)
(* clear; encode_varint(0) is the one byte 0.                              *)
(***************************************************************************)
VarintLaw ==
  /\ rd.pc # "IndexError"
  /\ rd.pc = "done" =>
       /\ rd.result = rd.i
       /\ rd.pos = rd.start + Len(encode_varint(rd.i))
  /\ \A k \in 1..Len(encode_varint(rd.i)) :
       IF k < Len(encode_varint(rd.i))
       THEN encode_varint(rd.i)[k] \in 128..255
       ELSE encode_varint(rd.i)[k] \in 0..127
  /\ encode_varint(0) = <<0>>

\* a varint of four bytes or more read from the middle of the data
VarintLawWitness ==
  /\ rd.pc = "done"
  /\ rd.i >= 2097152
  /\ rd.start > 0

(***************************************************************************)
(* Reading back: a Builder is filled and locked, get_bytes gives the       *)
(* buffer, and a PycFile made of the buffer is loaded and asked for        *)
(* strings, blobs and code objects, in any order (tests.main, unpyc).      *)
(***************************************************************************)
ReaderBuilds ==
  {lock(add_everything(Builder, VCode(1))),
   lock(add_code(add_string(Builder, VStr(<<100>>)).B, VCode(2)).B),
   lock(add_constant(Builder, MainTuple).B),
   lock(add_everything(add_constant(Builder, VBytes(<<104>>)).B, VCode(1)))}

\* the state after get_bytes returned r and PycFile(r.data) was made
Built(r, has_exceptiontable) ==
  /\ r.B.err = ""
  /\ codeobjs = r.B.codeobjs
  /\ strings = r.B.strings
  /\ blobs = r.B.blobs
  /\ constants = r.B.constants
  /\ locked = r.B.locked
  /\ last = [NoCall EXCEPT !.op = "get_bytes", !.locked = TRUE, !.data = r.data]
  /\ pyc = PycFile(r.data, has_exceptiontable)

InitReader ==
  /\ ncalls = 0
  /\ rd = NoReader
  /\ cc = ComplexConstant(VNone)
  /\ got = NoGot
  /\ \E B \in ReaderBuilds, has_exceptiontable \in BOOLEAN :
       Built(Builder_get_bytes(B), has_exceptiontable)

Load ==
  /\ ~pyc.loaded
  /\ pyc' = load(pyc)
  /\ got' = [NoGot EXCEPT !.op = "load"]
  /\ UNCHANGED <<builder_vars, rd, cc>>

\* a call on the loaded file with index i, that gave r; hit says that the
\* cache slot was filled before the call
Called(op, i, cache, r) ==
  /\ pyc.loaded
  /\ pyc' = r.P
  /\ got' = [op |-> op, i |-> i, hit |-> i < Len(cache) /\ cache[i + 1].k # "none",
             value |-> r.value, err |-> r.err]
  /\ UNCHANGED <<builder_vars, rd, cc>>

\* the indices of a cache and one past them
Indices(cache) == 0..Len(cache)

PycGetString ==
  \E i \in Indices(pyc.strings) :
    Called("get_string", i, pyc.strings, PycFile_get_string(pyc, i))

PycGetBytes ==
  \E i \in Indices(pyc.blobs) :
    Called("get_bytes", i, pyc.blobs, PycFile_get_bytes(pyc, i))

PycGetCode ==
  \E i \in Indices(pyc.code_objects) :
    Called("get_code", i, pyc.code_objects, PycFile_get_code(pyc, i))

NextReader ==
  \/ Load
  \/ PycGetString
  \/ PycGetBytes
  \/ PycGetCode

SpecReader == InitReader /\ [][NextReader]_vars

\* the call made last had an index of the pool
InRange(pool) == got.i < Len(pool)

(***************************************************************************)
(* C11  Reader accessors invert the pools: get_string(i) returns the text  *)
(* interned at index i of the string pool, and get_bytes(i), for a blob i  *)
(* that is a Bytes, returns the bytes interned at index i of the blob      *)
(* pool; the value returned is the one in cache slot i, on the first call  *)
(* and on every later one.                                                 *)
(***************************************************************************)
AccessorsInvert ==
  /\ (got.op = "get_string" /\ InRange(strings)) =>
       /\ got.err = ""
       /\ got.value = strings[got.i + 1].value
       /\ pyc.strings[got.i + 1] = got.value
  /\ (got.op = "get_bytes" /\ InRange(blobs) /\ blobs[got.i + 1].type = "Bytes") =>
       /\ got.err = ""
       /\ got.value = blobs[got.i + 1].value
       /\ pyc.blobs[got.i + 1] = got.value

(***************************************************************************)
(* Builds of code units only, as tests.main makes them: add_code and       *)
(* add_everything, lock, get_bytes.                                        *)
(***************************************************************************)
NextSealed ==
  \/ AddCode
  \/ AddEverything
  \/ Lock
  \/ GetBytes

SpecSealed == Init /\ [][NextSealed]_vars

\* the constant pool without what get_bytes keeps of its own result
Contents(pool) == [i \in 1..Len(pool) |-> [pool[i] EXCEPT !.data = <<>>]]

(***************************************************************************)
(* C12  Serialization of a sealed Builder is read-only: get_bytes on a     *)
(* locked Builder that holds code units registered by add_code and         *)
(* add_everything raises nothing and leaves the four pools as they were.   *)
(***************************************************************************)
SealedReadOnly ==
  [][(locked /\ last'.op = "get_bytes") =>
       /\ last'.err = ""
       /\ codeobjs' = codeobjs
       /\ strings' = strings
       /\ blobs' = blobs
       /\ Contents(constants') = Contents(constants)]_vars

(***************************************************************************)
(* Builds of constants and code units: add_constant and add_code, lock,    *)
(* get_bytes.                                                              *)
(***************************************************************************)
NextAccepted ==
  \/ AddConstant
  \/ AddCode
  \/ Lock
  \/ GetBytes

SpecAccepted == Init /\ [][NextAccepted]_vars

(***************************************************************************)
(* C13  Every accepted build can be serialized: after add_constant and     *)
(* add_code calls that all returned, get_bytes returns a buffer.           *)
(***************************************************************************)
AcceptedSerializes ==
  last.op = "get_bytes" => (last.err = "" /\ ~IsFailed(last.data))

\* a code unit has a docstring when it is a function whose first constant is
\* a string
HasDocstring(code) ==
  /\ code.co_flags % 4 = 3
  /\ code.co_consts # <<>>
  /\ code.co_consts[1].k = "str"

\* the docstring field of the record at offset: the eleventh 4-byte field
DocstringField(data, offset) == read_long(data, offset + 40)

(***************************************************************************)
(* C14  Docstring presence: in the buffer get_bytes returns, the docstring *)
(* field of the record of a code unit is 0 exactly when the unit has no    *)
(* docstring.                                                              *)
(***************************************************************************)
DocstringPresence ==
  (last.op = "get_bytes" /\ last.err = "") =>
    \A i \in 1..Len(codeobjs) :
      (DocstringField(last.data, PycFile_load(last.data).code_offsets[i]) = 0)
        <=> ~HasDocstring(CodeUnits[codeobjs[i].value.n])

\* get_code(i) as the first call on a file loaded from the same data
Fresh(i) ==
  PycFile_get_code(load(PycFile(pyc.data, pyc.has_exceptiontable)), i)

(***************************************************************************)
(* C15  Decoding is independent of access order: what the first            *)
(* get_code(i) on a loaded file gives (the code unit with all its fields,  *)
(* or the exception) is what it gives as the first call on the file,       *)
(* whatever calls were made before it.                                     *)
(***************************************************************************)
AccessOrderIndependent ==
  (got.op = "get_code" /\ ~got.hit /\ InRange(pyc.code_objects)) =>
    /\ got.err = Fresh(got.i).err
    /\ got.value = Fresh(got.i).value

=============================================================================
